---- MODULE Spec2Model ----
(***************************************************************************)
(* Bear: the stand-in (wrapper) process of the intercept crate and the     *)
(* recognition driver of the bear crate.                                   *)
(*                                                                         *)
(* Paths are sequences of components ("/" is the root component); an       *)
(* Option/Result value is a sequence of length at most one (<<>> is        *)
(* None/Err, <<x>> is Some(x)/Ok(x)).                                      *)
(***************************************************************************)
EXTENDS Integers, Sequences, FiniteSets, TLC

VARIABLES
    fs,               \* file system: candidate path -> node kind
    env,              \* process environment: [PATH, DEST], each an Option
    argv,             \* per process: std::env::args()
    exe,              \* per process: the path the binary was started through
    pc,               \* per process: position in main
    executable,       \* per process: Option, result of file_name_from_arguments
    current_exe,      \* per process: Option, result of std::env::current_exe()
    real_executable,  \* per process: Option, result of next_in_path
    execution,        \* per process: Option, result of into_execution
    reported,         \* per process: outcome of the reporting match in main
    conns,            \* per process: connection attempts made to the collector
    sent,             \* per process: Events written to the collector
    spawned,          \* per process: sequence of [program, args] spawn attempts
    child,            \* per process: [state, code] of the spawned child
    exitCode,         \* per process: Option, the exit code of the stand-in
    config,           \* config::Main, the part Recognition::try_from reads
    interpreter,      \* Option: the engine owned by the Recognition driver
    cpc,              \* per caller of apply: position in apply
    cexec,            \* per caller: Option, the Execution handed to apply
    coutcome,         \* per caller: Option, what interpreter.recognize returned
    cresult           \* per caller: Option of Option<Meaning>, what apply returned

wvars == <<fs, env, argv, exe, pc, executable, current_exe, real_executable,
           execution, reported, conns, sent, spawned, child, exitCode>>

rvars == <<config, interpreter, cpc, cexec, coutcome, cresult>>

vars == <<wvars, rvars>>

----------------------------------------------------------------------------
(* Bounds *)

MaxPathLen == 2      \* longest PATH (number of entries)
NumProcs == 2        \* stand-in instances of one build
MaxExit == 2         \* child exit codes are 0..MaxExit
MaxCompilers == 2    \* longest compilers list of the configuration
MaxExecutables == 1  \* longest executables list of the configuration

(* Program constants *)

MainErrCode == 1     \* exit code of a Rust main that returns Err
NoCodeExit == 1      \* status.code().unwrap_or(1)

----------------------------------------------------------------------------
(* Values *)

None == <<>>
Some(x) == <<x>>
IsSome(o) == Len(o) = 1
Get(o) == o[1]

Procs == 1..NumProcs

Name == "cc"
WrapDir == <<"/", "wrap">>
BinDir == <<"/", "usr", "bin">>
DirPool == {WrapDir, BinDir}
WrapperBin == <<"/", "opt", "bear", "wrapper">>
Cwd == <<"/", "proj">>
Address == "127.0.0.1:4000"

\* Path::join with a relative right hand side
Join(dir, rel) == dir \o rel

Cands == {Join(d, <<Name>>) : d \in DirPool}
Files == Cands \cup {WrapperBin}

\* "absent": nothing there; "dir": a directory; "file": an executable regular
\* file; "filenx": a regular file without the executable bit; "unres": a regular
\* file whose canonicalization fails; "link": a symbolic link to WrapperBin.
Kinds == {"absent", "dir", "file", "filenx", "unres", "link"}

Layouts == {f \in [Files -> Kinds] : f[WrapperBin] = "file"}

RECURSIVE SeqsUpTo(_, _)
SeqsUpTo(S, n) ==
    IF n = 0 THEN {<<>>}
    ELSE LET shorter == SeqsUpTo(S, n - 1)
         IN shorter \cup {Append(s, x) : s \in {t \in shorter : Len(t) = n - 1}, x \in S}

PathValues == SeqsUpTo(DirPool, MaxPathLen)

ArgvSet == { <<>>,
             << <<"/">> >>,
             << <<"/", "wrap", "..">>, <<"-c">> >>,
             << <<"/", "wrap", "cc">>, <<"-c">>, <<"a.c">> >> }

ChildCodes == 0..MaxExit

----------------------------------------------------------------------------
(* File system queries *)

\* std::fs::metadata follows symbolic links; is_file is true for a regular file
Resolve1(f, p) == IF p \in Files /\ f[p] = "link" THEN WrapperBin ELSE p

IsFile(f, p) ==
    LET q == Resolve1(f, p)
    IN q \in Files /\ f[q] \in {"file", "filenx", "unres"}

\* Path::canonicalize: Ok(absolute, symlink-free path) or Err
Canonicalize(f, p) ==
    LET q == Resolve1(f, p)
    IN IF q \in Files /\ f[q] \in {"file", "filenx", "dir"} THEN Some(q) ELSE None

\* Path::file_name: the last component, unless the path is empty, the root or
\* ends in ".."
FileName(p) ==
    IF p = <<>> THEN None
    ELSE IF p[Len(p)] \in {"/", ".."} THEN None
    ELSE Some(<<p[Len(p)]>>)

\* std::env::current_exe: the path of the running binary. Where the process
\* was started through a symbolic link the platform returns the link's target
\* (Linux) or the link itself (macOS); the call may also fail.
CurrentExeOutcomes(f, started) ==
    {None, Some(started)} \cup {Some(Get(Canonicalize(f, started)))}

----------------------------------------------------------------------------
(* The stand-in: pure parts *)

\* file_name_from_arguments: the file name of the first argument
FileNameFromArguments(args) ==
    IF args = <<>> THEN None ELSE FileName(args[1])

\* variant: a candidate whose canonicalization fails is kept
NextInPathKeepUnresolved(target, path, f, ce) ==
    LET joined == [k \in 1..Len(path) |-> Join(path[k], target)]
        keep(p) == /\ IsFile(f, p)
                   /\ LET real_path == Canonicalize(f, p)
                      IN IF real_path = None THEN TRUE ELSE Get(real_path) # ce
        kept == SelectSeq(joined, keep)
    IN IF kept = <<>> THEN None ELSE Some(kept[1])

\* next_in_path, after PATH and current_exe were read: the first PATH entry
\* whose candidate is a regular file and whose real path is not current_exe
NextInPath(target, path, f, ce) ==
    LET joined == [k \in 1..Len(path) |-> Join(path[k], target)]
        keep(p) == /\ IsFile(f, p)
                   /\ LET real_path == Canonicalize(f, p)
                      IN IF real_path = None THEN FALSE ELSE Get(real_path) # ce
        kept == SelectSeq(joined, keep)
    IN IF kept = <<>> THEN None ELSE Some(kept[1])

\* into_execution, given the working directory
IntoExecution(path_buf, args, working_dir, environment) ==
    [executable |-> path_buf, arguments |-> args,
     working_dir |-> working_dir, environment |-> environment]

\* variant: the id of the parent (the build), the same for every stand-in
PidOfParent(i) == 100

\* std::process::id(), one per process
Pid(i) == 100 + i

\* the Event of report
MkEvent(i, e) == [pid |-> Pid(i), execution |-> e]

----------------------------------------------------------------------------
(* The stand-in: steps of main *)

\* variant: the error is logged and main returns normally
FatalSilent(i) ==
    /\ pc' = [pc EXCEPT ![i] = "exited"]
    /\ exitCode' = [exitCode EXCEPT ![i] = Some(0)]

\* main returns Err through `?`: the process ends with the failure code
Fatal(i) ==
    /\ pc' = [pc EXCEPT ![i] = "exited"]
    /\ exitCode' = [exitCode EXCEPT ![i] = Some(MainErrCode)]

\* main, line 51: let executable = file_name_from_arguments()?
Start(i) ==
    /\ pc[i] = "start"
    /\ LET r == FileNameFromArguments(argv[i])
       IN IF r = None
          THEN Fatal(i) /\ UNCHANGED executable
          ELSE /\ executable' = [executable EXCEPT ![i] = r]
               /\ pc' = [pc EXCEPT ![i] = "resolve"]
               /\ UNCHANGED exitCode
    /\ UNCHANGED <<rvars, fs, env, argv, exe, current_exe, real_executable, execution,
                   reported, conns, sent, spawned, child>>

\* main, line 54: let real_executable = next_in_path(&executable)?
Resolve(i) ==
    /\ pc[i] = "resolve"
    /\ IF env.PATH = None
       THEN Fatal(i) /\ UNCHANGED <<current_exe, real_executable>>
       ELSE \E ce \in CurrentExeOutcomes(fs, exe[i]) :
              /\ current_exe' = [current_exe EXCEPT ![i] = ce]
              /\ IF ce = None
                 THEN Fatal(i) /\ UNCHANGED real_executable
                 ELSE LET r == NextInPath(Get(executable[i]), Get(env.PATH), fs, Get(ce))
                      IN IF r = None
                         THEN Fatal(i) /\ UNCHANGED real_executable
                         ELSE /\ real_executable' = [real_executable EXCEPT ![i] = r]
                              /\ pc' = [pc EXCEPT ![i] = "build"]
                              /\ UNCHANGED exitCode
    /\ UNCHANGED <<rvars, fs, env, argv, exe, executable, execution, reported, conns,
                   sent, spawned, child>>

\* main, line 58: into_execution(&real_executable); Err when the working
\* directory is unavailable, and then report is not called
Build(i) ==
    /\ pc[i] = "build"
    /\ \E cwdOk \in BOOLEAN :
         IF cwdOk
         THEN /\ execution' = [execution EXCEPT ![i] =
                     Some(IntoExecution(Get(real_executable[i]), argv[i], Cwd, env))]
              /\ pc' = [pc EXCEPT ![i] = "report"]
              /\ UNCHANGED reported
         ELSE /\ reported' = [reported EXCEPT ![i] = "err_cwd"]
              /\ pc' = [pc EXCEPT ![i] = "log"]
              /\ UNCHANGED execution
    /\ UNCHANGED <<rvars, fs, env, argv, exe, executable, current_exe, real_executable,
                   conns, sent, spawned, child, exitCode>>

\* variant: a missing address falls back to a default one
ReportEnvDefault(i) ==
    /\ pc[i] = "report"
    /\ conns' = [conns EXCEPT ![i] = @ + 1]
    /\ pc' = [pc EXCEPT ![i] = "connecting"]
    /\ UNCHANGED <<rvars, fs, env, argv, exe, executable, current_exe, real_executable,
                   execution, reported, sent, spawned, child, exitCode>>

\* report, line 122: std::env::var(KEY_DESTINATION)
ReportEnv(i) ==
    /\ pc[i] = "report"
    /\ IF env.DEST = None
       THEN /\ reported' = [reported EXCEPT ![i] = "err_missing"]
            /\ pc' = [pc EXCEPT ![i] = "log"]
            /\ UNCHANGED conns
       ELSE /\ conns' = [conns EXCEPT ![i] = @ + 1]
            /\ pc' = [pc EXCEPT ![i] = "connecting"]
            /\ UNCHANGED reported
    /\ UNCHANGED <<rvars, fs, env, argv, exe, executable, current_exe, real_executable,
                   execution, sent, spawned, child, exitCode>>

\* TcpReporter::new: the collector accepts the connection
ConnectOk(i) ==
    /\ pc[i] = "connecting"
    /\ pc' = [pc EXCEPT ![i] = "sending"]
    /\ UNCHANGED <<rvars, fs, env, argv, exe, executable, current_exe, real_executable,
                   execution, reported, conns, sent, spawned, child, exitCode>>

\* TcpReporter::new: the address is unreachable, the connection is refused or
\* the bounded timeout runs out
ConnectErr(i) ==
    /\ pc[i] = "connecting"
    /\ reported' = [reported EXCEPT ![i] = "err_connect"]
    /\ pc' = [pc EXCEPT ![i] = "log"]
    /\ UNCHANGED <<rvars, fs, env, argv, exe, executable, current_exe, real_executable,
                   execution, conns, sent, spawned, child, exitCode>>

\* TcpReporter::report: the Event is written and the channel closed
SendOk(i) ==
    /\ pc[i] = "sending"
    /\ sent' = [sent EXCEPT ![i] = Append(@, MkEvent(i, Get(execution[i])))]
    /\ reported' = [reported EXCEPT ![i] = "ok"]
    /\ pc' = [pc EXCEPT ![i] = "log"]
    /\ UNCHANGED <<rvars, fs, env, argv, exe, executable, current_exe, real_executable,
                   execution, conns, spawned, child, exitCode>>

\* TcpReporter::report: the write fails or the bounded timeout runs out
SendErr(i) ==
    /\ pc[i] = "sending"
    /\ reported' = [reported EXCEPT ![i] = "err_send"]
    /\ pc' = [pc EXCEPT ![i] = "log"]
    /\ UNCHANGED <<rvars, fs, env, argv, exe, executable, current_exe, real_executable,
                   execution, conns, sent, spawned, child, exitCode>>

\* variants of the match of lines 58-61: the error is propagated with `?`;
\* a failed transport is tried again until it succeeds
LogOrAbort(i) ==
    /\ pc[i] = "log"
    /\ IF reported[i] = "ok"
       THEN pc' = [pc EXCEPT ![i] = "spawn"] /\ UNCHANGED exitCode
       ELSE Fatal(i)
    /\ UNCHANGED <<rvars, fs, env, argv, exe, executable, current_exe, real_executable,
                   execution, reported, conns, sent, spawned, child>>

LogRetry(i) ==
    /\ pc[i] = "log"
    /\ IF reported[i] \in {"err_connect", "err_send"}
       THEN /\ pc' = [pc EXCEPT ![i] = "connecting"]
            /\ reported' = [reported EXCEPT ![i] = "none"]
       ELSE pc' = [pc EXCEPT ![i] = "spawn"] /\ UNCHANGED reported
    /\ UNCHANGED <<rvars, fs, env, argv, exe, executable, current_exe, real_executable,
                   execution, conns, sent, spawned, child, exitCode>>

\* variant: a failed transport makes report run once more from its start
LogReportAgain(i) ==
    /\ pc[i] = "log"
    /\ IF reported[i] \in {"err_connect", "err_send"}
       THEN /\ pc' = [pc EXCEPT ![i] = "report"]
            /\ reported' = [reported EXCEPT ![i] = "none"]
       ELSE pc' = [pc EXCEPT ![i] = "spawn"] /\ UNCHANGED reported
    /\ UNCHANGED <<rvars, fs, env, argv, exe, executable, current_exe, real_executable,
                   execution, conns, sent, spawned, child, exitCode>>

\* main, lines 58-61: both arms of the match only log
Log(i) ==
    /\ pc[i] = "log"
    /\ pc' = [pc EXCEPT ![i] = "spawn"]
    /\ UNCHANGED <<rvars, fs, env, argv, exe, executable, current_exe, real_executable,
                   execution, reported, conns, sent, spawned, child, exitCode>>

\* variant: args() without skip(1)
SpawnAllArgs(i) ==
    /\ pc[i] = "spawn"
    /\ LET program == Get(real_executable[i])
           call == [program |-> program, args |-> argv[i]]
       IN /\ spawned' = [spawned EXCEPT ![i] = Append(@, call)]
          /\ \E ok \in {b \in BOOLEAN : b => fs[Resolve1(fs, program)] = "file"} :
               IF ok
               THEN /\ child' = [child EXCEPT ![i] = [state |-> "running", code |-> None]]
                    /\ pc' = [pc EXCEPT ![i] = "wait"]
                    /\ UNCHANGED exitCode
               ELSE Fatal(i) /\ UNCHANGED child
    /\ UNCHANGED <<rvars, fs, env, argv, exe, executable, current_exe, real_executable,
                   execution, reported, conns, sent>>

\* main, lines 65-67: Command::new(real_executable).args(args().skip(1)).status()?
\* the spawn half of status(); a file without the executable bit cannot start
Spawn(i) ==
    /\ pc[i] = "spawn"
    /\ LET program == Get(real_executable[i])
           call == [program |-> program, args |-> Tail(argv[i])]
       IN /\ spawned' = [spawned EXCEPT ![i] = Append(@, call)]
          /\ \E ok \in {b \in BOOLEAN : b => fs[Resolve1(fs, program)] = "file"} :
               IF ok
               THEN /\ child' = [child EXCEPT ![i] = [state |-> "running", code |-> None]]
                    /\ pc' = [pc EXCEPT ![i] = "wait"]
                    /\ UNCHANGED exitCode
               ELSE Fatal(i) /\ UNCHANGED child
    /\ UNCHANGED <<rvars, fs, env, argv, exe, executable, current_exe, real_executable,
                   execution, reported, conns, sent>>

\* the child terminates: with an exit code, or without one (killed by a signal)
ChildExit(i) ==
    /\ child[i].state = "running"
    /\ \E code \in {None} \cup {Some(c) : c \in ChildCodes} :
         child' = [child EXCEPT ![i] = [state |-> "exited", code |-> code]]
    /\ UNCHANGED <<rvars, fs, env, argv, exe, pc, executable, current_exe, real_executable,
                   execution, reported, conns, sent, spawned, exitCode>>

\* variant: unwrap_or_default()
StatusCodeDefault(status) == IF status.code = None THEN 0 ELSE Get(status.code)

\* ExitStatus::code().unwrap_or(1)
StatusCode(status) == IF status.code = None THEN NoCodeExit ELSE Get(status.code)

\* variant: spawn() and try_wait() in place of status(): no wait for the child
ExitNoWait(i) ==
    /\ pc[i] = "wait"
    /\ exitCode' = [exitCode EXCEPT ![i] = Some(StatusCode(child[i]))]
    /\ pc' = [pc EXCEPT ![i] = "exited"]
    /\ UNCHANGED <<rvars, fs, env, argv, exe, executable, current_exe, real_executable,
                   execution, reported, conns, sent, spawned, child>>

\* main, lines 67-70: status() returns once the child has terminated;
\* std::process::exit(status.code().unwrap_or(1))
Exit(i) ==
    /\ pc[i] = "wait"
    /\ child[i].state = "exited"
    /\ exitCode' = [exitCode EXCEPT ![i] = Some(StatusCode(child[i]))]
    /\ pc' = [pc EXCEPT ![i] = "exited"]
    /\ UNCHANGED <<rvars, fs, env, argv, exe, executable, current_exe, real_executable,
                   execution, reported, conns, sent, spawned, child>>

----------------------------------------------------------------------------
(* Recognition: values *)

Cc1 == <<"/", "usr", "bin", "cc1">>
Custom == <<"/", "opt", "custom">>
Ls == <<"/", "bin", "ls">>

Sources == {<<"a.c">>, <<"b.c">>}

CompileArgs == << <<"cc">>, <<"-c">>, <<"a.c">>, <<"-o">>, <<"a.o">> >>
NoSourceArgs == << <<"cc">>, <<"-O2">> >>
PreprocessArgs == << <<"cc">>, <<"-E">>, <<"a.c">>, <<"b.c">> >>

MkRecord(path, arguments) ==
    [executable |-> path, arguments |-> arguments,
     working_dir |-> Cwd, environment |-> [PATH |-> None, DEST |-> None]]

Records == {MkRecord(Cc1, a) : a \in {CompileArgs, NoSourceArgs, PreprocessArgs}}
           \cup {MkRecord(Custom, a) : a \in {CompileArgs, NoSourceArgs}}
           \cup {MkRecord(Ls, NoSourceArgs)}

Callers == {"h1", "h2"}

\* semantic::Meaning and semantic::CompilerPass
Compiler(compiler, working_dir, passes) == <<"Compiler", compiler, working_dir, passes>>
Ignored == <<"Ignored">>
Preprocess == <<"Preprocess">>
Compile(source, output, flags) == <<"Compile", source, output, flags>>

\* semantic::Recognition<T>
Success(m) == <<"Success", m>>
Error(reason) == <<"Error", reason>>
Unknown == <<"Unknown">>

InSeq(x, s) == \E k \in 1..Len(s) : s[k] = x

----------------------------------------------------------------------------
(* Recognition: the engine (semantic::interpreters) *)

\* Builder::new().compilers_to_recognize(..).compilers_to_exclude(..).build():
\* the engine keeps its own copies of the two path lists
BuilderBuild(recognize, exclude) ==
    [compilers_to_recognize |-> recognize, compilers_to_exclude |-> exclude]

\* the arguments after the program name
Trailing(e) == IF e.arguments = <<>> THEN <<>> ELSE Tail(e.arguments)

\* the value following "-o", if any
OutputOf(args) ==
    LET at == {k \in 1..(Len(args) - 1) : args[k] = <<"-o">>}
    IN IF at = {} THEN None
       ELSE Some(args[(CHOOSE k \in at : \A j \in at : k <= j) + 1])

\* the arguments that are neither a source, nor "-c", nor "-o" and its value
FlagsOf(args) ==
    LET idx == {k \in 1..Len(args) :
                  /\ args[k] \notin Sources
                  /\ args[k] \notin {<<"-c">>, <<"-o">>}
                  /\ ~(k > 1 /\ args[k - 1] = <<"-o">>)}
        keepAt(k) == k \in idx
        RECURSIVE pick(_)
        pick(k) == IF k > Len(args) THEN <<>>
                   ELSE IF keepAt(k) THEN <<args[k]>> \o pick(k + 1) ELSE pick(k + 1)
    IN pick(1)

IsSource(a) == a \in Sources

\* one Compile pass per source, in argument order
Decompose(e) ==
    LET args == Trailing(e)
        srcs == SelectSeq(args, IsSource)
        pass(src) == Compile(src, OutputOf(args), FlagsOf(args))
    IN Compiler(e.executable, e.working_dir, [k \in 1..Len(srcs) |-> pass(srcs[k])])

\* the built-in family classifiers, in their fixed order.
\* 1: the cc family, by file name; "-E" is preprocessing only; a call without a
\*    source is an Error.  2: the compiler-proper family, by file name.
BuiltIn == <<"cc", "proper">>

Classify(family, e) ==
    LET name == FileName(e.executable)
        args == Trailing(e)
    IN IF family = "cc"
       THEN IF name \notin {Some(<<"cc">>), Some(<<"cc1">>)} THEN Unknown
            ELSE IF InSeq(<<"-E">>, args)
                 THEN Success(Compiler(e.executable, e.working_dir, <<Preprocess>>))
            ELSE IF SelectSeq(args, IsSource) = <<>> THEN Error("source file not found")
            ELSE Success(Decompose(e))
       ELSE IF name \notin {Some(<<"cc1">>), Some(<<"cc1plus">>)} THEN Unknown
            ELSE Success(Decompose(e))

\* first classifier, in order, that does not return Unknown
RECURSIVE FirstMatch(_, _)
FirstMatch(k, e) ==
    IF k > Len(BuiltIn) THEN Unknown
    ELSE IF Classify(BuiltIn[k], e) # Unknown THEN Classify(BuiltIn[k], e)
    ELSE FirstMatch(k + 1, e)

\* the explicit-inclusion matcher: the whole call is one Compile pass, source
\* unresolved, all trailing arguments kept as flags
Generic(e) ==
    Success(Compiler(e.executable, e.working_dir,
                     <<Compile(None, None, Trailing(e))>>))

\* Interpreter::recognize of the built engine
Recognize(engine, e) ==
    IF InSeq(e.executable, engine.compilers_to_exclude) THEN Success(Ignored)
    ELSE IF FirstMatch(1, e) # Unknown THEN FirstMatch(1, e)
    ELSE IF InSeq(e.executable, engine.compilers_to_recognize) THEN Generic(e)
    ELSE Unknown

----------------------------------------------------------------------------
(* Recognition: the driver (recognition.rs) *)

PathOf(compiler) == compiler.path

IgnoreAlways(compiler) == compiler.ignore = "Always"

\* variant of try_from: the exclusion list is not handed to the builder
TryFromNoExclude(cfg) ==
    Some(BuilderBuild(IF cfg.intercept[1] = "Wrapper" THEN cfg.intercept[2] ELSE <<>>,
                      <<>>))

\* variants of try_from: the two lists handed to the builder methods the
\* other way round; every configured compiler excluded, whatever its ignore
TryFromSwapped(cfg) ==
    LET compilers_to_include ==
            IF cfg.intercept[1] = "Wrapper" THEN cfg.intercept[2] ELSE <<>>
        compilers_to_exclude ==
            IF cfg.output[1] = "Clang"
            THEN LET always == SelectSeq(cfg.output[2], IgnoreAlways)
                 IN [k \in 1..Len(always) |-> PathOf(always[k])]
            ELSE <<>>
    IN Some(BuilderBuild(compilers_to_exclude, compilers_to_include))

TryFromAllCompilers(cfg) ==
    LET compilers_to_include ==
            IF cfg.intercept[1] = "Wrapper" THEN cfg.intercept[2] ELSE <<>>
        compilers_to_exclude ==
            IF cfg.output[1] = "Clang"
            THEN [k \in 1..Len(cfg.output[2]) |-> PathOf(cfg.output[2][k])]
            ELSE <<>>
    IN Some(BuilderBuild(compilers_to_include, compilers_to_exclude))

\* Recognition::try_from(&config::Main), lines 17-38
TryFrom(cfg) ==
    LET compilers_to_include ==
            IF cfg.intercept[1] = "Wrapper" THEN cfg.intercept[2] ELSE <<>>
        compilers_to_exclude ==
            IF cfg.output[1] = "Clang"
            THEN LET always == SelectSeq(cfg.output[2], IgnoreAlways)
                 IN [k \in 1..Len(always) |-> PathOf(always[k])]
            ELSE <<>>
    IN Some(BuilderBuild(compilers_to_include, compilers_to_exclude))

\* variants of the match of apply: without the Success(Ignored) arm; with the
\* Unknown arm returning Ignored
ApplyMatchNoIgnoredArm(outcome) ==
    IF outcome[1] = "Success" THEN Some(outcome[2]) ELSE None

ApplyMatchUnknownIgnored(outcome) ==
    IF outcome = Success(Ignored) THEN None
    ELSE IF outcome[1] = "Success" THEN Some(outcome[2])
    ELSE IF outcome[1] = "Error" THEN None
    ELSE Some(Ignored)

\* the match of Recognition::apply, lines 43-68
ApplyMatch(outcome) ==
    IF outcome = Success(Ignored) THEN None
    ELSE IF outcome[1] = "Success" THEN Some(outcome[2])
    ELSE IF outcome[1] = "Error" THEN None
    ELSE None

\* Recognition::apply as a function of the engine and the record
Apply(engine, e) == ApplyMatch(Recognize(engine, e))

\* the collector builds the driver once
Construct ==
    /\ interpreter = None
    /\ interpreter' = TryFrom(config)
    /\ UNCHANGED <<wvars, config, cpc, cexec, coutcome, cresult>>

\* a caller enters apply with an Execution
Call(c) ==
    /\ interpreter # None
    /\ cpc[c] = "idle"
    /\ \E e \in Records : cexec' = [cexec EXCEPT ![c] = Some(e)]
    /\ cpc' = [cpc EXCEPT ![c] = "recognize"]
    /\ UNCHANGED <<wvars, config, interpreter, coutcome, cresult>>

\* variant of recognize: an executable whose call failed to decompose is
\* remembered in the engine's exclusion list
CallRecognizeLearning(c) ==
    /\ cpc[c] = "recognize"
    /\ LET engine == Get(interpreter)
           e == Get(cexec[c])
           outcome == Recognize(engine, e)
       IN /\ coutcome' = [coutcome EXCEPT ![c] = Some(outcome)]
          /\ interpreter' =
                 IF outcome[1] = "Error"
                 THEN Some([engine EXCEPT !.compilers_to_exclude = Append(@, e.executable)])
                 ELSE interpreter
    /\ cpc' = [cpc EXCEPT ![c] = "match"]
    /\ UNCHANGED <<wvars, config, cexec, cresult>>

\* apply, line 43: self.interpreter.recognize(&execution)
CallRecognize(c) ==
    /\ cpc[c] = "recognize"
    /\ coutcome' = [coutcome EXCEPT ![c] = Some(Recognize(Get(interpreter), Get(cexec[c])))]
    /\ cpc' = [cpc EXCEPT ![c] = "match"]
    /\ UNCHANGED <<wvars, config, interpreter, cexec, cresult>>

\* apply, lines 44-68: the match arms and the return
Return(c) ==
    /\ cpc[c] = "match"
    /\ cresult' = [cresult EXCEPT ![c] = Some(ApplyMatch(Get(coutcome[c])))]
    /\ cpc' = [cpc EXCEPT ![c] = "returned"]
    /\ UNCHANGED <<wvars, config, interpreter, cexec, coutcome>>

----------------------------------------------------------------------------
(* One stand-in in every file-system layout, PATH, argument vector *)

InitProc(started) ==
    /\ pc = [i \in Procs |-> IF i \in started THEN "start" ELSE "off"]
    /\ executable = [i \in Procs |-> None]
    /\ current_exe = [i \in Procs |-> None]
    /\ real_executable = [i \in Procs |-> None]
    /\ execution = [i \in Procs |-> None]
    /\ reported = [i \in Procs |-> "none"]
    /\ conns = [i \in Procs |-> 0]
    /\ sent = [i \in Procs |-> <<>>]
    /\ spawned = [i \in Procs |-> <<>>]
    /\ child = [i \in Procs |-> [state |-> "none", code |-> None]]
    /\ exitCode = [i \in Procs |-> None]

NoConfig == [intercept |-> <<"Preload">>, output |-> <<"Semantic">>]

\* config::Compiler entries: a path and its ignore setting
CompilerEntries ==
    { [path |-> Cc1, ignore |-> "Always"], [path |-> Cc1, ignore |-> "Never"],
      [path |-> Custom, ignore |-> "Always"], [path |-> Custom, ignore |-> "Conditional"] }

Configs ==
    [intercept : {<<"Preload">>} \cup
                 {<<"Wrapper", x>> : x \in SeqsUpTo({Custom, Cc1}, MaxExecutables)},
     output : {<<"Semantic">>} \cup
              {<<"Clang", x>> : x \in SeqsUpTo(CompilerEntries, MaxCompilers)}]

InitDriver(cfg) ==
    /\ config = cfg
    /\ interpreter = None
    /\ cpc = [c \in Callers |-> "idle"]
    /\ cexec = [c \in Callers |-> None]
    /\ coutcome = [c \in Callers |-> None]
    /\ cresult = [c \in Callers |-> None]

\* the binary is started through a path that leads to a regular file
StartPaths(f) == {p \in Files : IsFile(f, p) /\ Canonicalize(f, p) # None}

Init ==
    /\ fs \in Layouts
    /\ env \in [PATH : {None} \cup {Some(p) : p \in PathValues},
                DEST : {None, Some(Address)}]
    /\ \E a \in ArgvSet, x \in StartPaths(fs) :
         /\ argv = [i \in Procs |-> IF i = 1 THEN a ELSE <<>>]
         /\ exe = [i \in Procs |-> IF i = 1 THEN x ELSE WrapperBin]
    /\ InitProc({1})
    /\ InitDriver(NoConfig)

Step(i) ==
    \/ Start(i)
    \/ Resolve(i)
    \/ Build(i)
    \/ ReportEnv(i)
    \/ ConnectOk(i)
    \/ ConnectErr(i)
    \/ SendOk(i)
    \/ SendErr(i)
    \/ Log(i)
    \/ Spawn(i)
    \/ ChildExit(i)
    \/ Exit(i)

Next == \E i \in Procs : Step(i)

Spec == Init /\ [][Next]_vars

----------------------------------------------------------------------------
(* One driver, built from every configuration, applied by concurrent callers *)

InitRecog ==
    /\ fs = [p \in Files |-> IF p = WrapperBin THEN "file" ELSE "absent"]
    /\ env = [PATH |-> None, DEST |-> None]
    /\ argv = [i \in Procs |-> <<>>]
    /\ exe = [i \in Procs |-> WrapperBin]
    /\ InitProc({})
    /\ \E cfg \in Configs : InitDriver(cfg)

NextRecog ==
    \/ Construct
    \/ \E c \in Callers : Call(c) \/ CallRecognize(c) \/ Return(c)

SpecRecog == InitRecog /\ [][NextRecog]_vars

----------------------------------------------------------------------------
(* The stand-in under fair scheduling: the process keeps running its own    *)
(* steps, and a connect or a write returns within the transport's timeout.  *)
(* Nothing is assumed about the child: it may run forever.                  *)

OwnStep(i) ==
    \/ Start(i) \/ Resolve(i) \/ Build(i) \/ ReportEnv(i)
    \/ ConnectOk(i) \/ ConnectErr(i) \/ SendOk(i) \/ SendErr(i)
    \/ Log(i) \/ Spawn(i) \/ Exit(i)

FairSpec == Init /\ [][Next]_vars /\ \A i \in Procs : WF_vars(OwnStep(i))

----------------------------------------------------------------------------
(* Several stand-ins of one build run in parallel: each is a hard copy of   *)
(* the wrapper in the first PATH directory, the real tool is in the second, *)
(* and all report to the same collector address.                            *)

ParArgv(i) ==
    IF i = 1 THEN << <<"/", "wrap", "cc">>, <<"-c">>, <<"a.c">> >>
    ELSE << <<"cc">>, <<"-E">> >>

InitPar ==
    /\ fs = [p \in Files |-> "file"]
    /\ env \in [PATH : {Some(<<WrapDir, BinDir>>)}, DEST : {None, Some(Address)}]
    /\ argv = [i \in Procs |-> ParArgv(i)]
    /\ exe = [i \in Procs |-> Join(WrapDir, <<Name>>)]
    /\ InitProc(Procs)
    /\ InitDriver(NoConfig)

SpecPar == InitPar /\ [][Next]_vars

----------------------------------------------------------------------------
(* Vocabulary of the properties *)

\* the canonical path of the running stand-in binary
SelfCanon(i) == Canonicalize(fs, exe[i])

\* the k-th candidate of the search path
Candidate(i, k) == Join(Get(env.PATH)[k], Get(executable[i]))

\* a regular file whose canonical path is known and is not the stand-in's
Qualifies(i, p) ==
    /\ IsFile(fs, p)
    /\ Canonicalize(fs, p) # None
    /\ Canonicalize(fs, p) # SelfCanon(i)

Resolved(i) == real_executable[i] # None

\* the one spawn the stand-in is to make
ExpectedCall(i) == [program |-> Get(real_executable[i]), args |-> Tail(argv[i])]

----------------------------------------------------------------------------
(* Properties of the stand-in *)

\* C1: once the real tool was spawned, the stand-in exits only after the child
\* has terminated, with the child's exit code when it has one and with 1 when
\* it has none (killed by a signal); no other exit code follows a spawn.
C1_ExitCodeRelayed ==
    \A i \in Procs :
        (child[i].state # "none" /\ exitCode[i] # None) =>
            /\ child[i].state = "exited"
            /\ exitCode[i] = IF child[i].code = None THEN Some(1) ELSE child[i].code

C1_Witness ==
    \E i \in Procs :
        /\ pc[i] = "exited" /\ child[i].state = "exited"
        /\ child[i].code = None /\ exitCode[i] = Some(1)

\* C2: whatever the reporting phase ended with (no working directory, no
\* collector address, connection failure, send failure, success), the stand-in
\* goes on to spawn exactly the resolved executable with the arguments after
\* element 0, and exits with the child's code once the child has one.
C2_ReportingIsolated ==
    \A i \in Procs :
        (reported[i] # "none" /\ pc[i] \in {"wait", "exited"}) =>
            /\ spawned[i] = <<ExpectedCall(i)>>
            /\ (pc[i] = "exited" /\ child[i].state = "exited" /\ child[i].code # None)
                   => exitCode[i] = child[i].code
            /\ (pc[i] = "exited" /\ child[i].state = "exited" /\ child[i].code = None)
                   => exitCode[i] = Some(1)

C2_Witness ==
    \E i \in Procs :
        /\ reported[i] = "err_connect"
        /\ pc[i] = "exited"
        /\ spawned[i] = <<ExpectedCall(i)>>
        /\ child[i].code = Some(2) /\ exitCode[i] = Some(2)

\* C3: next_in_path never returns a candidate whose canonical path is the
\* canonical path of the running stand-in binary, so the stand-in never spawns
\* itself.
C3_NeverSelf ==
    \A i \in Procs :
        /\ Resolved(i) => Canonicalize(fs, Get(real_executable[i])) # SelfCanon(i)
        /\ \A k \in 1..Len(spawned[i]) :
               Canonicalize(fs, spawned[i][k].program) # SelfCanon(i)

\* C4: a successful resolution returns the candidate of the earliest search
\* path entry that is a regular file and not the stand-in itself, executable
\* or not.
C4_FirstQualifying ==
    \A i \in Procs :
        Resolved(i) =>
            \E k \in 1..Len(Get(env.PATH)) :
                /\ Get(real_executable[i]) = Candidate(i, k)
                /\ Qualifies(i, Candidate(i, k))
                /\ \A j \in 1..(k - 1) : ~Qualifies(i, Candidate(i, j))

\* C5: when no search path entry holds a regular file of the invoked name
\* other than the stand-in itself, resolution fails and the stand-in ends with
\* a non-zero exit code, having made no connection, sent no Event and spawned
\* no child.
C5_NoCandidateIsFatal ==
    \A i \in Procs :
        ( /\ pc[i] \notin {"off", "start", "resolve"}
          /\ executable[i] # None
          /\ env.PATH # None
          /\ \A k \in 1..Len(Get(env.PATH)) : ~Qualifies(i, Candidate(i, k)) ) =>
            /\ ~Resolved(i)
            /\ pc[i] = "exited"
            /\ exitCode[i] # None /\ exitCode[i] # Some(0)
            /\ conns[i] = 0 /\ sent[i] = <<>> /\ spawned[i] = <<>>

----------------------------------------------------------------------------
(* Properties of the recognition driver *)

IsCompiler(outcome) == outcome[1] = "Success" /\ outcome[2][1] = "Compiler"

\* the configuration excludes the path: a Clang output names it with
\* ignore = Always
ExcludedByConfig(cfg, p) ==
    /\ cfg.output[1] = "Clang"
    /\ \E k \in 1..Len(cfg.output[2]) :
           cfg.output[2][k].path = p /\ cfg.output[2][k].ignore = "Always"

\* C6: apply returns a Meaning exactly when the engine's outcome is
\* Success(Compiler{..}), and then the very Meaning the engine produced; for
\* Success(Ignored), Error and Unknown it returns nothing; every call returns.
C6_ApplyOnlyCompiler ==
    \A c \in Callers :
        /\ cpc[c] = "returned" => cresult[c] # None
        /\ cresult[c] # None =>
              LET outcome == Get(coutcome[c])
                  result == Get(cresult[c])
              IN /\ result # None <=> IsCompiler(outcome)
                 /\ result # None => Get(result) = outcome[2]
                 /\ outcome \in {Success(Ignored), Unknown} => result = None
                 /\ outcome[1] = "Error" => result = None

C6_Witness ==
    /\ cpc["h1"] = "returned" /\ cpc["h2"] = "returned"
    /\ IsCompiler(Get(coutcome["h1"])) /\ Get(cresult["h1"]) = Some(Get(coutcome["h1"])[2])
    /\ Get(coutcome["h2"])[1] = "Error" /\ Get(cresult["h2"]) = None

\* C7: an Execution whose executable is excluded (a member of the engine's
\* compilers_to_exclude, which holds the configuration's ignore = Always
\* paths) is recognized as Success(Ignored), whatever its arguments and even
\* when a built-in classifier or the inclusion list would recognize it; apply
\* returns nothing for it.
C7_ExcludedIsIgnored ==
    \A c \in Callers :
        coutcome[c] # None =>
            LET e == Get(cexec[c])
            IN ( \/ InSeq(e.executable, Get(interpreter).compilers_to_exclude)
                 \/ ExcludedByConfig(config, e.executable) ) =>
                   /\ Get(coutcome[c]) = Success(Ignored)
                   /\ cresult[c] # None => Get(cresult[c]) = None

C7_Witness ==
    \E c \in Callers :
        /\ cresult[c] = Some(None)
        /\ Get(cexec[c]).executable = Cc1
        /\ InSeq(Cc1, Get(interpreter).compilers_to_exclude)
        /\ InSeq(Cc1, Get(interpreter).compilers_to_recognize)
        /\ FirstMatch(1, Get(cexec[c])) # Unknown

\* C8: an Execution whose executable is not excluded, matches no built-in
\* classifier and is not in compilers_to_recognize is Unknown, and apply
\* returns nothing for it.
C8_UnmatchedIsUnknown ==
    \A c \in Callers :
        coutcome[c] # None =>
            LET e == Get(cexec[c])
            IN ( /\ ~InSeq(e.executable, Get(interpreter).compilers_to_exclude)
                 /\ \A k \in 1..Len(BuiltIn) : Classify(BuiltIn[k], e) = Unknown
                 /\ ~InSeq(e.executable, Get(interpreter).compilers_to_recognize) ) =>
                   /\ Get(coutcome[c]) = Unknown
                   /\ cresult[c] # None => Get(cresult[c]) = None

C8_Witness ==
    \E c \in Callers :
        /\ cresult[c] = Some(None)
        /\ Get(coutcome[c]) = Unknown
        /\ Get(cexec[c]).executable = Ls
        /\ Get(interpreter).compilers_to_recognize # <<>>
        /\ Get(interpreter).compilers_to_exclude # <<>>

----------------------------------------------------------------------------
(* Properties of the reporting phase and of the engine's state *)

InReporting(i) == pc[i] \in {"build", "report", "connecting", "sending", "log"}

C10_EngineFrozen ==
    /\ interpreter # None => interpreter = TryFrom(config)
    /\ \A c \in Callers :
           cresult[c] # None =>
               Get(cresult[c]) = Apply(Get(TryFrom(config)), Get(cexec[c]))

C10_Witness ==
    /\ cpc["h1"] = "returned" /\ cpc["h2"] = "match"
    /\ Get(cexec["h1"]).executable = Get(cexec["h2"]).executable
    /\ Get(cresult["h1"]) = None
    /\ IsCompiler(Get(coutcome["h2"]))

----------------------------------------------------------------------------
(* Properties of parallel stand-ins *)

\* what belongs to one stand-in
Own(i) == <<pc[i], executable[i], current_exe[i], real_executable[i], execution[i],
            reported[i], conns[i], sent[i], spawned[i], child[i], exitCode[i]>>

\* C11: stand-ins running in parallel are independent. A step of one leaves
\* everything of the others as it was; each spawns its own resolved tool and
\* exits with its own child's code whatever the others' reports did; the
\* collector gets at most one Event per stand-in, on that stand-in's own
\* connection, and the Events of different stand-ins carry different process
\* ids.
C11_State ==
    \A i \in Procs :
        /\ conns[i] <= 1 /\ Len(sent[i]) <= conns[i]
        /\ \A j \in Procs \ {i} : \A k \in 1..Len(sent[i]) : \A l \in 1..Len(sent[j]) :
               sent[i][k].pid # sent[j][l].pid
        /\ \A k \in 1..Len(sent[i]) :
               sent[i][k].execution.arguments = argv[i]
        /\ spawned[i] # <<>> => spawned[i] = <<ExpectedCall(i)>>
        /\ (pc[i] = "exited" /\ child[i].state # "none") =>
               exitCode[i] = IF child[i].code = None THEN Some(1) ELSE child[i].code

C11_Step ==
    \A i \in Procs :
        Own(i)' # Own(i) => \A j \in Procs \ {i} : Own(j)' = Own(j)

C11_Independent == [](C11_State) /\ [][C11_Step]_vars

C11_Witness ==
    /\ pc[1] = "exited" /\ pc[2] = "exited"
    /\ reported[1] = "ok" /\ reported[2] = "err_connect"
    /\ Len(sent[1]) = 1 /\ sent[2] = <<>>
    /\ exitCode[1] = Some(0) /\ exitCode[2] = Some(2)
    /\ spawned[1] # spawned[2]

----------------------------------------------------------------------------
(* Order and multiplicity of the steps of main *)

\* the position of a step in main
Rank(p) ==
    CASE p = "off" -> 0 [] p = "start" -> 1 [] p = "resolve" -> 2 [] p = "build" -> 3
      [] p = "report" -> 4 [] p = "connecting" -> 5 [] p = "sending" -> 6
      [] p = "log" -> 7 [] p = "spawn" -> 8 [] p = "wait" -> 9 [] p = "exited" -> 10

C12_State ==
    \A i \in Procs :
        /\ Resolved(i) => executable[i] # None
        /\ (execution[i] # None \/ reported[i] # "none" \/ conns[i] > 0) => Resolved(i)
        /\ spawned[i] # <<>> =>
               /\ Resolved(i)
               /\ reported[i] # "none"
               /\ pc[i] \in {"wait", "exited"}
        /\ child[i].state # "none" => spawned[i] # <<>>
        /\ (exitCode[i] # None /\ child[i].state # "none") => child[i].state = "exited"

C12_Step ==
    \A i \in Procs :
        /\ Rank(pc'[i]) >= Rank(pc[i])
        /\ spawned[i] # <<>> =>
               /\ conns'[i] = conns[i]
               /\ sent'[i] = sent[i]
               /\ reported'[i] = reported[i]
               /\ spawned'[i] = spawned[i]

\* C12: the steps of a stand-in happen in the order name, resolution, report,
\* spawn, wait, exit and never go back: the tool is spawned only after
\* resolution succeeded and the reporting phase ended, nothing is reported
\* (or spawned again) after the spawn, and an exit that follows a spawn
\* happens only after the child has terminated.
C12_StrictOrder == [](C12_State) /\ [][C12_Step]_vars

C12_Witness ==
    \E i \in Procs :
        /\ pc[i] = "exited" /\ reported[i] = "ok" /\ Len(sent[i]) = 1
        /\ child[i].state = "exited" /\ exitCode[i] = Some(0)

\* C13: nothing is retried: a stand-in makes at most one connection attempt,
\* sends at most one Event and spawns at most once; a failed connection or
\* send leaves it at one attempt and no Event, and a failed spawn ends it with
\* the one spawn of the resolved executable, no other candidate being tried.
C13_NoRetry ==
    \A i \in Procs :
        /\ conns[i] <= 1 /\ Len(sent[i]) <= 1 /\ Len(spawned[i]) <= 1
        /\ (reported[i] \in {"err_connect", "err_send"} /\ pc[i] # "log") =>
               conns[i] = 1 /\ sent[i] = <<>>
        /\ (spawned[i] # <<>> /\ child[i].state = "none") =>
               /\ pc[i] = "exited"
               /\ spawned[i] = << [program |-> Get(real_executable[i]),
                                   args |-> Tail(argv[i])] >>

C13_Witness ==
    \E i \in Procs :
        /\ reported[i] = "err_send" /\ conns[i] = 1 /\ sent[i] = <<>>
        /\ spawned[i] # <<>> /\ child[i].state = "none" /\ pc[i] = "exited"
        /\ Len(Get(env.PATH)) = 2
        /\ Get(real_executable[i]) = Candidate(i, 1)
        /\ IsFile(fs, Candidate(i, 2))

\* C14: when the collector address variable is absent, reporting is skipped:
\* no connection is attempted and no Event is sent, the reporting phase ends
\* with the missing-address error at most, and the stand-in goes on to spawn
\* the resolved tool.
C14_NoAddressNoReport ==
    env.DEST = None =>
        \A i \in Procs :
            /\ conns[i] = 0 /\ sent[i] = <<>>
            /\ pc[i] \notin {"connecting", "sending"}
            /\ reported[i] \in {"none", "err_cwd", "err_missing"}
            /\ (reported[i] = "err_missing" /\ pc[i] \in {"wait", "exited"}) =>
                   spawned[i] = <<ExpectedCall(i)>>

C14_Witness ==
    \E i \in Procs :
        /\ env.DEST = None /\ reported[i] = "err_missing"
        /\ pc[i] = "wait" /\ child[i].state = "running"
        /\ conns[i] = 0 /\ sent[i] = <<>>

----------------------------------------------------------------------------
(* Content of the Event and of the spawn *)

\* the Event carries what the stand-in itself was started with
EventOfOwnRun(i, ev) ==
    /\ ev.pid = Pid(i)
    /\ ev.execution.executable = Get(real_executable[i])
    /\ ev.execution.arguments = argv[i]
    /\ ev.execution.arguments # <<>>
    /\ ev.execution.working_dir = Cwd
    /\ ev.execution.environment = env

\* C15: every Event a stand-in sends carries its own process id and a record
\* whose executable is the resolved real path and never the stand-in's own
\* path (as started or canonical), whose arguments are the whole original
\* argument vector, element 0 included and so non-empty, whose working
\* directory is the current directory and whose environment is the whole
\* environment.
C15_EventContent ==
    \A i \in Procs : \A k \in 1..Len(sent[i]) :
        /\ EventOfOwnRun(i, sent[i][k])
        /\ sent[i][k].execution.executable # exe[i]
        /\ Canonicalize(fs, sent[i][k].execution.executable) # SelfCanon(i)

\* C16: the child is started with the resolved real executable and with
\* the original arguments after element 0, all of them and in their order;
\* put behind element 0 they are the arguments of the reported record, whose
\* executable is the program spawned.
C16_ArgsForwarded ==
    \A i \in Procs : \A k \in 1..Len(spawned[i]) :
        LET call == spawned[i][k]
        IN /\ call.program = Get(real_executable[i])
           /\ Len(call.args) = Len(argv[i]) - 1
           /\ \A n \in 1..Len(call.args) : call.args[n] = argv[i][n + 1]
           /\ execution[i] # None =>
                  /\ Get(execution[i]).arguments = <<argv[i][1]>> \o call.args
                  /\ Get(execution[i]).executable = call.program
           /\ \A m \in 1..Len(sent[i]) :
                  Tail(sent[i][m].execution.arguments) = call.args

C16_Witness ==
    \E i \in Procs :
        /\ Len(sent[i]) = 1 /\ Len(spawned[i]) = 1
        /\ spawned[i][1].args = << <<"-c">>, <<"a.c">> >>
        /\ sent[i][1].execution.arguments = << <<"/", "wrap", "cc">>, <<"-c">>, <<"a.c">> >>
        /\ child[i].state = "running"

----------------------------------------------------------------------------
(* Fatal errors *)

\* the first argument is missing or has no file name
NoName(i) ==
    \/ argv[i] = <<>>
    \/ argv[i][1] = <<>>
    \/ argv[i][1][Len(argv[i][1])] \in {"/", ".."}

\* C17: a stand-in whose invoked name cannot be determined ends with a
\* non-zero exit code before any resolution, report or spawn; one whose
\* resolved executable cannot be spawned ends with a non-zero exit code; and
\* a stand-in that ended without a child never ends with code 0 nor with a
\* code taken from a child.
C17_FatalAborts ==
    \A i \in Procs :
        /\ (NoName(i) /\ pc[i] \notin {"off", "start"}) =>
               /\ pc[i] = "exited"
               /\ exitCode[i] # None /\ exitCode[i] # Some(0)
               /\ executable[i] = None /\ current_exe[i] = None
               /\ real_executable[i] = None /\ execution[i] = None
               /\ reported[i] = "none" /\ conns[i] = 0 /\ sent[i] = <<>>
               /\ spawned[i] = <<>> /\ child[i].state = "none"
        /\ (spawned[i] # <<>> /\ child[i].state = "none") =>
               /\ pc[i] = "exited"
               /\ exitCode[i] # None /\ exitCode[i] # Some(0)
        /\ (pc[i] = "exited" /\ child[i].state = "none") =>
               exitCode[i] = Some(1)

C17_Witness ==
    \E i \in Procs :
        /\ argv[i] # <<>> /\ NoName(i)
        /\ pc[i] = "exited" /\ exitCode[i] = Some(1)
        /\ spawned[i] = <<>>

----------------------------------------------------------------------------
(* Candidates that cannot be canonicalized *)

\* what next_in_path keeps: a regular file with a canonical path other than
\* the current_exe it read
Kept(i, p) ==
    /\ IsFile(fs, p)
    /\ Canonicalize(fs, p) # None
    /\ Canonicalize(fs, p) # current_exe[i]

\* C19: a candidate that is a regular file but cannot be canonicalized is
\* never selected: it is passed over and the search goes on with the later
\* directories, ending with the first candidate kept, or in a fatal error
\* when none is.
C19_UnresolvableSkipped ==
    \A i \in Procs :
        /\ Resolved(i) => Canonicalize(fs, Get(real_executable[i])) # None
        /\ ( /\ pc[i] \notin {"off", "start", "resolve"}
             /\ executable[i] # None /\ env.PATH # None /\ current_exe[i] # None ) =>
               LET n == Len(Get(env.PATH))
                   hits == {k \in 1..n : Kept(i, Candidate(i, k))}
               IN IF hits = {}
                  THEN ~Resolved(i) /\ pc[i] = "exited" /\ exitCode[i] = Some(1)
                  ELSE /\ Resolved(i)
                       /\ \E k \in hits : /\ \A j \in hits : k <= j
                                          /\ Get(real_executable[i]) = Candidate(i, k)

C19_Witness ==
    \E i \in Procs :
        /\ Resolved(i)
        /\ Len(Get(env.PATH)) = 2
        /\ IsFile(fs, Candidate(i, 1))
        /\ Canonicalize(fs, Candidate(i, 1)) = None
        /\ Get(real_executable[i]) = Candidate(i, 2)
        /\ spawned[i] # <<>>

----------------------------------------------------------------------------
(* Properties of the engine and of its construction *)

\* the configuration lists the path as a compiler to recognize
IncludedByConfig(cfg, p) ==
    cfg.intercept[1] = "Wrapper" /\ InSeq(p, cfg.intercept[2])

\* C18: for an executable the configuration does not exclude, the outcome of
\* recognize is the verdict of the first built-in classifier, in the fixed
\* order, whose verdict is not Unknown, whatever the later classifiers and the
\* inclusion matcher would say; the inclusion matcher decides only when every
\* built-in classifier says Unknown.
C18_FirstVerdictWins ==
    \A c \in Callers :
        (coutcome[c] # None /\ ~ExcludedByConfig(config, Get(cexec[c]).executable)) =>
            LET e == Get(cexec[c])
                verdict == [k \in 1..Len(BuiltIn) |-> Classify(BuiltIn[k], e)]
                hits == {k \in 1..Len(BuiltIn) : verdict[k] # Unknown}
            IN IF hits # {}
               THEN \E k \in hits : /\ \A j \in hits : k <= j
                                    /\ Get(coutcome[c]) = verdict[k]
               ELSE Get(coutcome[c]) =
                        IF IncludedByConfig(config, e.executable)
                        THEN Generic(e) ELSE Unknown

C18_Witness ==
    \E c \in Callers :
        /\ coutcome[c] = Some(Error("source file not found"))
        /\ Classify(BuiltIn[1], Get(cexec[c])) = Error("source file not found")
        /\ Classify(BuiltIn[2], Get(cexec[c])) = Success(Decompose(Get(cexec[c])))
        /\ IncludedByConfig(config, Get(cexec[c]).executable)
        /\ Generic(Get(cexec[c])) # Get(coutcome[c])

\* the paths of the entries with ignore Always, in the order of the entries
RECURSIVE AlwaysPaths(_)
AlwaysPaths(entries) ==
    IF entries = <<>> THEN <<>>
    ELSE (IF Head(entries).ignore = "Always" THEN <<Head(entries).path>> ELSE <<>>)
         \o AlwaysPaths(Tail(entries))

\* C20: construction succeeds whatever the configuration, and the engine it
\* builds excludes the paths of the configured compilers with ignore Always,
\* in configuration order, when the output is of the Clang kind and nothing
\* otherwise, and is to recognize the wrapper-mode executables when
\* interception is in wrapper mode and nothing otherwise.
C20_EngineFromConfig ==
    /\ TryFrom(config) # None
    /\ interpreter # None =>
           /\ Get(interpreter).compilers_to_exclude =
                  IF config.output[1] = "Clang"
                  THEN AlwaysPaths(config.output[2]) ELSE <<>>
           /\ Get(interpreter).compilers_to_recognize =
                  IF config.intercept[1] = "Wrapper"
                  THEN config.intercept[2] ELSE <<>>

C20_Witness ==
    /\ config.intercept = <<"Wrapper", <<Cc1>> >>
    /\ config.output = <<"Clang", << [path |-> Custom, ignore |-> "Always"],
                                     [path |-> Cc1, ignore |-> "Always"] >> >>
    /\ interpreter = Some([compilers_to_recognize |-> <<Cc1>>,
                           compilers_to_exclude |-> <<Custom, Cc1>>])
    /\ \E c \in Callers : cresult[c] # None

====
